---- MODULE Spec2Model ----
(***************************************************************************)
(* Verification model of the workflow-builder front end.                   *)
(*                                                                         *)
(* The components are modelled each with its own specification:            *)
(*   SpecWorkspace  - ResizableWorkspace (panels, console, error effect)   *)
(*   SpecPresets    - getEffectiveVersion / filterPresetsByVersion         *)
(*   SpecML         - MLProcessorInputs (model, maps, callouts, previews)  *)
(*   SpecMLFields   - MLProcessorInputs (field options of the input map)   *)
(*   SpecReadonly   - ResizableWorkspace (read-only flag of the form)      *)
(*   SpecSearchRequest - ConfigureSearchRequest (index, test query)        *)
(*   SpecLibrary    - NewWorkflow (preset library, version check, search)  *)
(* A React effect is modelled as part of the action that changes one of    *)
(* its dependencies: the render and the effect follow the change before    *)
(* any further event is handled.                                           *)
(***************************************************************************)
EXTENDS Integers, Sequences, FiniteSets, TLC

VARIABLES
    \* ---- ResizableWorkspace ----
    isToolsPanelOpen,       \* useState(true)
    isConsolePanelOpen,     \* useState(false)
    toolsPanelCollapsed,    \* collapsed flag the resizable container keeps for the tools panel
    toolsToggles,           \* number of calls of onToggleToolsChange so far
    opensearchError,        \* state.opensearch.errorMessage
    workflowsError,         \* state.workflows.errorMessage
    workflowError,          \* props.workflow?.error
    ingestPipelineErrors,   \* state.errors.ingestPipeline (values, in key order)
    searchPipelineErrors,   \* state.errors.searchPipeline (values, in key order)
    consoleErrorMessages,   \* useState([])
    ingestResponse,         \* useState('')
    selectedInspectorTabId, \* useState(INSPECTOR_TAB_ID.TEST)
    \* ---- getEffectiveVersion / filterPresetsByVersion ----
    dataSourceEnabled,      \* getDataSourceEnabled().enabled
    callKind,               \* which function the current call is: "none", "gev", "fpv"
    callPc,                 \* "idle", "awaitProxy", "awaitSavedObject", "resolved", "rejected"
    callDataSourceId,       \* argument dataSourceId of the call
    callWorkflows,          \* argument workflows of filterPresetsByVersion
    callVersion,            \* what getEffectiveVersion resolved to in this call
    callResult,             \* what filterPresetsByVersion resolved to
    callLookups,            \* HTTP / saved-object lookups issued by this call
    callOutcome,            \* how the lookup of this call ended
    \* ---- MLProcessorInputs ----
    context,                \* props.context
    models,                 \* state.ml.models, as the set of loaded model ids
    modelId,                \* form value <modelFieldPath>.id
    inputMapValue,          \* form value <...>.input_map
    outputMapValue,         \* form value <...>.output_map
    inputMapTouched,        \* formik touched flag of input_map
    outputMapTouched,       \* formik touched flag of output_map
    modelInterface,         \* useState(undefined)
    processors,             \* props.uiConfig.search.enrichRequest.processors (ids)
    isInputPreviewAvailable,    \* useState(true)
    isInputTransformModalOpen,  \* useState(false)
    isOutputTransformModalOpen, \* useState(false)
    ingestDocs,             \* form value ingest.docs
    searchRequest,          \* form value search.request
    searchIndexName,        \* form value search.index.name
    docFields,              \* useState([])
    queryFields,            \* useState([])
    indexMappingFields,     \* useState([])
    pendingMappings,        \* getMappings requests in flight (index names)
    \* ---- ResizableWorkspace: read-only state of the component input form ----
    selectedComponentId,    \* useState(''), as the id's dot-separated segments
    ingestReadonly,         \* useState(false)
    searchReadonly,         \* useState(false)
    isProvisioning,         \* useState(false)
    \* ---- ConfigureSearchRequest ----
    values,                 \* the formik values the component reads
    csrMounted,             \* the initial-load effect has run
    selectedIndex,          \* useState(values?.search?.index?.name)
    searchIndexTouched,     \* formik touched flag of search.index.name
    isEditModalOpen,        \* useState(false)
    query,                  \* what props.setQuery stored last
    queryResponse,          \* what props.setQueryResponse stored last
    requests,               \* searchIndex requests in flight, in dispatch order
    latestPending,          \* the request of the latest click is still in flight
    latestOutcome,          \* how the request of the latest click ended
    lastChain,              \* how the promise chain that settled last ended
    lastResponse,           \* the answer that settled last
    \* ---- NewWorkflow ----
    presetWorkflows,        \* state.presets.presetWorkflows
    currentDataSourceId,    \* getDataSourceId() of the render
    allWorkflows,           \* useState([])
    filteredWorkflows,      \* useState([])
    isVersionLoading,       \* useState(false)
    searchQuery,            \* useState('')
    loads,                  \* loadWorkflows invocations suspended at an await
    loadLatest,             \* the latest loadWorkflows invocation: "none", "pending", "done", "rejected"
    shownFor,               \* the data source id of the invocation that set the list last
    \* ---- observation ----
    lastOp                  \* name of the handler that ran last

wsVars == <<isToolsPanelOpen, isConsolePanelOpen, toolsPanelCollapsed, toolsToggles,
            opensearchError, workflowsError, workflowError, ingestPipelineErrors,
            searchPipelineErrors, consoleErrorMessages, ingestResponse,
            selectedInspectorTabId>>

nwVars == <<dataSourceEnabled, callKind, callPc, callDataSourceId, callWorkflows,
            callVersion, callResult, callLookups, callOutcome>>

mlVars == <<context, models, modelId, inputMapValue, outputMapValue, inputMapTouched,
            outputMapTouched, modelInterface, processors, isInputPreviewAvailable,
            isInputTransformModalOpen, isOutputTransformModalOpen, ingestDocs,
            searchRequest, searchIndexName, docFields, queryFields,
            indexMappingFields, pendingMappings>>

roVars == <<selectedComponentId, ingestReadonly, searchReadonly, isProvisioning>>

csrVars == <<values, csrMounted, selectedIndex, searchIndexTouched, isEditModalOpen, query, queryResponse,
             requests, latestPending, latestOutcome, lastChain, lastResponse>>

libVars == <<presetWorkflows, currentDataSourceId, allWorkflows, filteredWorkflows,
             isVersionLoading, searchQuery, loads, loadLatest, shownFor>>

moreVars == <<roVars, csrVars, libVars>>

vars == <<wsVars, nwVars, mlVars, moreVars, lastOp>>

(***************************************************************************)
(* Bounds                                                                  *)
(***************************************************************************)
MaxToggles == 3
MaxProcessorErrors == 1

(***************************************************************************)
(* Shared helpers                                                          *)
(***************************************************************************)
\* undefined / not present
None == "undefined"

\* lodash isEmpty on a string or undefined
isEmptyStr(s) == s = "" \/ s = None

\* lodash isEmpty on an object, given as the sequence of its values
isEmptyObj(o) == Len(o) = 0

\* all sequences over S of length at most n
SeqsUpTo(S, n) == UNION {[1..k -> S] : k \in 0..n}

(***************************************************************************)
(* ResizableWorkspace                                                      *)
(***************************************************************************)
ErrorStrings(e) == {"", e}
ProcessorErrorNames == {"proc_a", "proc_b"}
ProcessorErrorMaps ==
    {s \in SeqsUpTo(ProcessorErrorNames, MaxProcessorErrors) :
        \A i, j \in 1..Len(s) : i < j => s[i] # s[j]}

\* a console entry: a plain string or a formatted processor error
TextMessage(s) == [kind |-> "text", body |-> s]
formatProcessorError(e) == [kind |-> "processorError", body |-> e]

INGEST_ERRORS_HEADER ==
    "Data not ingested. Errors found with the following ingest processor(s):"
SEARCH_ERRORS_HEADER == "Errors found with the following search processor(s):"

\* the condition of the error effect
HasErrors(o, w, we, ip, sp) ==
    \/ ~isEmptyStr(o)
    \/ ~isEmptyObj(ip)
    \/ ~isEmptyObj(sp)
    \/ ~isEmptyStr(w)
    \/ ~isEmptyStr(we)

\* the list the error effect builds
errorMessages(o, w, we, ip, sp) ==
       (IF ~isEmptyStr(o) THEN <<TextMessage(o)>> ELSE <<>>)
    \o (IF ~isEmptyStr(w) THEN <<TextMessage(w)>> ELSE <<>>)
    \o (IF ~isEmptyStr(we) THEN <<TextMessage(we)>> ELSE <<>>)
    \o (IF ~isEmptyObj(ip)
        THEN <<TextMessage(INGEST_ERRORS_HEADER)>>
               \o [i \in 1..Len(ip) |-> formatProcessorError(ip[i])]
        ELSE <<>>)
    \o (IF ~isEmptyObj(sp)
        THEN <<TextMessage(SEARCH_ERRORS_HEADER)>>
               \o [i \in 1..Len(sp) |-> formatProcessorError(sp[i])]
        ELSE <<>>)

\* faulty variant: the effect leaves the console closed when the user had closed it
ErrorEffectConsoleOpen_KeepClosed(wasOpen, hasErrors) == wasOpen

\* isConsolePanelOpen after the error effect
ErrorEffectConsoleOpen(wasOpen, hasErrors) == IF hasErrors THEN TRUE ELSE wasOpen

\* consoleErrorMessages after the error effect
ErrorEffectMessages(o, w, we, ip, sp) ==
    IF HasErrors(o, w, we, ip, sp) THEN errorMessages(o, w, we, ip, sp) ELSE <<>>

ErrorSources ==
    <<opensearchError, workflowsError, workflowError, ingestPipelineErrors,
      searchPipelineErrors>>

WsInit ==
    /\ isToolsPanelOpen = TRUE
    /\ toolsPanelCollapsed = FALSE
    /\ toolsToggles = 0
    /\ opensearchError \in ErrorStrings("opensearch failed")
    /\ workflowsError \in ErrorStrings("workflows failed")
    /\ workflowError \in {None, "workflow error"}
    /\ ingestPipelineErrors = <<>>
    /\ searchPipelineErrors = <<>>
    /\ ingestResponse = ""
    /\ selectedInspectorTabId = "TEST"
    \* the effects run once on mount, with isConsolePanelOpen = false
    /\ consoleErrorMessages =
         ErrorEffectMessages(opensearchError, workflowsError, workflowError, <<>>, <<>>)
    /\ isConsolePanelOpen =
         ErrorEffectConsoleOpen(FALSE,
             HasErrors(opensearchError, workflowsError, workflowError, <<>>, <<>>))

WsIdle ==
    /\ isToolsPanelOpen = TRUE
    /\ isConsolePanelOpen = FALSE
    /\ toolsPanelCollapsed = FALSE
    /\ toolsToggles = 0
    /\ opensearchError = ""
    /\ workflowsError = ""
    /\ workflowError = None
    /\ ingestPipelineErrors = <<>>
    /\ searchPipelineErrors = <<>>
    /\ consoleErrorMessages = <<>>
    /\ ingestResponse = ""
    /\ selectedInspectorTabId = "TEST"

\* one of the error effect's dependencies changes; the effect runs
ErrorsChange(o, w, we, ip, sp) ==
    /\ <<o, w, we, ip, sp>> # ErrorSources
    /\ opensearchError' = o
    /\ workflowsError' = w
    /\ workflowError' = we
    /\ ingestPipelineErrors' = ip
    /\ searchPipelineErrors' = sp
    /\ consoleErrorMessages' = ErrorEffectMessages(o, w, we, ip, sp)
    /\ isConsolePanelOpen' =
         ErrorEffectConsoleOpen(isConsolePanelOpen, HasErrors(o, w, we, ip, sp))
    /\ lastOp' = "ErrorsChange"
    /\ UNCHANGED <<isToolsPanelOpen, toolsPanelCollapsed, toolsToggles, ingestResponse,
                   selectedInspectorTabId>>
    /\ UNCHANGED <<nwVars, mlVars, moreVars>>

\* faulty variant: the toggle only ever closes the panel
ToggledToolsOpen_AlwaysClose(open) == FALSE

\* setIsToolsPanelOpen(!isToolsPanelOpen)
ToggledToolsOpen(open) == ~open

\* collapseFnHorizontal.current(TOOLS_PANEL_ID, ...): togglePanel of the container
togglePanel(collapsed) == ~collapsed

\* the state change of onToggleToolsChange
onToggleToolsChange ==
    /\ toolsPanelCollapsed' = togglePanel(toolsPanelCollapsed)
    /\ isToolsPanelOpen' = ToggledToolsOpen(isToolsPanelOpen)
    /\ toolsToggles' = toolsToggles + 1

\* the collapse button of the tools panel (onToggleCollapsedInternal)
ToggleTools ==
    /\ toolsToggles < MaxToggles
    /\ onToggleToolsChange
    /\ lastOp' = "ToggleTools"
    /\ UNCHANGED <<isConsolePanelOpen, opensearchError, workflowsError, workflowError,
                   ingestPipelineErrors, searchPipelineErrors, consoleErrorMessages,
                   ingestResponse, selectedInspectorTabId>>
    /\ UNCHANGED <<nwVars, mlVars, moreVars>>

\* LeftNav's displaySearchPanel callback
DisplaySearchPanel ==
    /\ toolsToggles < MaxToggles
    /\ IF ~isToolsPanelOpen
       THEN onToggleToolsChange
       ELSE UNCHANGED <<toolsPanelCollapsed, isToolsPanelOpen, toolsToggles>>
    /\ selectedInspectorTabId' = "TEST"
    /\ lastOp' = "DisplaySearchPanel"
    /\ UNCHANGED <<isConsolePanelOpen, opensearchError, workflowsError, workflowError,
                   ingestPipelineErrors, searchPipelineErrors, consoleErrorMessages,
                   ingestResponse>>
    /\ UNCHANGED <<nwVars, mlVars, moreVars>>

\* the console's fold / unfold button
onToggleConsoleChange ==
    /\ isConsolePanelOpen' = ~isConsolePanelOpen
    /\ lastOp' = "onToggleConsoleChange"
    /\ UNCHANGED <<isToolsPanelOpen, toolsPanelCollapsed, toolsToggles, opensearchError,
                   workflowsError, workflowError, ingestPipelineErrors,
                   searchPipelineErrors, consoleErrorMessages, ingestResponse,
                   selectedInspectorTabId>>
    /\ UNCHANGED <<nwVars, mlVars, moreVars>>

\* LeftNav calls setIngestResponse; the ingestResponse effect runs
IngestResponseChange(resp) ==
    /\ resp # ingestResponse
    /\ ingestResponse' = resp
    /\ isConsolePanelOpen' =
         IF ~isEmptyStr(resp) /\ ~isConsolePanelOpen THEN TRUE ELSE isConsolePanelOpen
    /\ lastOp' = "IngestResponseChange"
    /\ UNCHANGED <<isToolsPanelOpen, toolsPanelCollapsed, toolsToggles, opensearchError,
                   workflowsError, workflowError, ingestPipelineErrors,
                   searchPipelineErrors, consoleErrorMessages, selectedInspectorTabId>>
    /\ UNCHANGED <<nwVars, mlVars, moreVars>>

WsNext ==
    \/ \E o \in ErrorStrings("opensearch failed"), w \in ErrorStrings("workflows failed"),
          we \in {None, "workflow error"},
          ip \in ProcessorErrorMaps, sp \in ProcessorErrorMaps :
              ErrorsChange(o, w, we, ip, sp)
    \/ ToggleTools
    \/ DisplaySearchPanel
    \/ onToggleConsoleChange
    \/ \E resp \in {"", "ingested"} : IngestResponseChange(resp)

(***************************************************************************)
(* getEffectiveVersion and filterPresetsByVersion                          *)
(***************************************************************************)
MaxWorkflows == 2

\* a semantic version is <<major, minor, patch>>
\* NoVersion: undefined or the empty string; InvalidVersion: a string semver cannot parse
NoVersion == <<>>
InvalidVersion == <<-1>>
MIN_SUPPORTED_VERSION == <<2, 17, 0>>
MINIMUM_FULL_SUPPORTED_VERSION == <<2, 19, 0>>
Versions == {<<2, 9, 0>>, <<2, 16, 3>>, <<2, 17, 0>>, <<2, 18, 1>>, <<2, 19, 0>>, <<3, 0, 0>>}

semverValid(v) == Len(v) = 3

\* semver.lt on two valid versions
semverLt(a, b) ==
    \/ a[1] < b[1]
    \/ a[1] = b[1] /\ a[2] < b[2]
    \/ a[1] = b[1] /\ a[2] = b[2] /\ a[3] < b[3]

\* semver.gte on two valid versions
semverGte(a, b) == ~semverLt(a, b)

\* the preset templates; type is ui_metadata.type, None when it is missing
PresetCatalogue ==
    {[name |-> "Semantic Search", type |-> "SEMANTIC_SEARCH"],
     [name |-> "Multimodal Search", type |-> "MULTIMODAL_SEARCH"],
     [name |-> "Hybrid Search", type |-> "HYBRID_SEARCH"],
     [name |-> "RAG with Vector Retrieval", type |-> "VECTOR_SEARCH_WITH_RAG"],
     [name |-> "Custom Search", type |-> None]}
WorkflowLists == SeqsUpTo(PresetCatalogue, MaxWorkflows)

DataSourceIds == {None, "", "ds-1"}

allowedPresetsFor217 == {"SEMANTIC_SEARCH", "MULTIMODAL_SEARCH", "HYBRID_SEARCH"}

\* workflow.ui_metadata?.type ?? WORKFLOW_TYPE.UNKNOWN
workflowTypeOf(workflow) == IF workflow.type = None THEN "UNKNOWN" ELSE workflow.type

\* the predicate of the filter applied for 2.17 <= version < 2.19
isAllowedFor217(workflow) == workflowTypeOf(workflow) \in allowedPresetsFor217

\* workflows.filter(...) with that predicate
RECURSIVE filterAllowedFor217(_)
filterAllowedFor217(workflows) ==
    IF workflows = <<>> THEN <<>>
    ELSE IF isAllowedFor217(Head(workflows))
         THEN <<Head(workflows)>> \o filterAllowedFor217(Tail(workflows))
    ELSE filterAllowedFor217(Tail(workflows))

\* what the lookup of getEffectiveVersion can answer:
\*   failed     the request is rejected
\*   malformed  the answer lacks the object the version is read from
\*   ok         the answer carries version (NoVersion: the attribute is absent)
LookupOutcomes ==
    {[kind |-> "failed", version |-> NoVersion],
     [kind |-> "malformed", version |-> NoVersion]}
    \cup {[kind |-> "ok", version |-> v] : v \in Versions \cup {NoVersion, InvalidVersion}}

NoOutcome == [kind |-> "none", version |-> NoVersion]

\* faulty variant: a rejected console-proxy call is not caught
proxyVersion_Uncaught(outcome) ==
    IF outcome.kind = "failed" THEN [settled |-> "rejected", version |-> NoVersion]
    ELSE IF outcome.kind = "malformed"
         THEN [settled |-> "resolved", version |-> MIN_SUPPORTED_VERSION]
    ELSE [settled |-> "resolved", version |-> outcome.version]

\* getEffectiveVersion('') once the console-proxy call has settled
proxyVersion(outcome) ==
    IF outcome.kind = "failed"
    THEN [settled |-> "resolved", version |-> MIN_SUPPORTED_VERSION]
    ELSE IF outcome.kind = "malformed"
         THEN [settled |-> "resolved", version |-> MIN_SUPPORTED_VERSION]
    ELSE [settled |-> "resolved", version |-> outcome.version]

\* getEffectiveVersion(id) once getSavedObjectsClient().get has settled
savedObjectVersion(outcome) ==
    IF outcome.kind = "failed"
    THEN [settled |-> "resolved", version |-> MIN_SUPPORTED_VERSION]
    ELSE IF outcome.kind = "malformed" \/ outcome.version = NoVersion
         THEN [settled |-> "resolved", version |-> MIN_SUPPORTED_VERSION]
    ELSE [settled |-> "resolved", version |-> outcome.version]

\* faulty variant: the partially supported range also shows every preset
filterByVersion_NoPartialRange(workflows, version) ==
    IF ~semverValid(version) THEN [settled |-> "rejected", result |-> <<>>]
    ELSE IF semverLt(version, MIN_SUPPORTED_VERSION)
         THEN [settled |-> "resolved", result |-> <<>>]
    ELSE [settled |-> "resolved", result |-> workflows]

\* filterPresetsByVersion after the version is known
filterByVersion(workflows, version) ==
    IF ~semverValid(version) THEN [settled |-> "rejected", result |-> <<>>]
    ELSE IF semverLt(version, MIN_SUPPORTED_VERSION)
         THEN [settled |-> "resolved", result |-> <<>>]
    ELSE IF /\ semverGte(version, MIN_SUPPORTED_VERSION)
            /\ semverLt(version, MINIMUM_FULL_SUPPORTED_VERSION)
         THEN [settled |-> "resolved", result |-> filterAllowedFor217(workflows)]
    ELSE [settled |-> "resolved", result |-> workflows]

NwIdle ==
    /\ callKind = "none"
    /\ callPc = "idle"
    /\ callDataSourceId = None
    /\ callWorkflows = <<>>
    /\ callVersion = NoVersion
    /\ callResult = <<>>
    /\ callLookups = 0
    /\ callOutcome = NoOutcome

NwInit ==
    /\ dataSourceEnabled \in BOOLEAN
    /\ NwIdle

\* the lookup getEffectiveVersion starts for a defined data source id
StartLookup(dataSourceId) ==
    /\ callPc' = IF dataSourceId = "" THEN "awaitProxy" ELSE "awaitSavedObject"
    /\ callLookups' = callLookups + 1
    /\ UNCHANGED <<callVersion, callOutcome>>

\* getEffectiveVersion(dataSourceId) is called
CallGetEffectiveVersion(dataSourceId) ==
    /\ callPc = "idle"
    /\ callKind' = "gev"
    /\ callDataSourceId' = dataSourceId
    /\ IF dataSourceId = None
       THEN \* throws 'Data source is required' inside the try block
            /\ callPc' = "resolved"
            /\ callVersion' = MIN_SUPPORTED_VERSION
            /\ UNCHANGED <<callLookups, callOutcome>>
       ELSE StartLookup(dataSourceId)
    /\ lastOp' = "CallGetEffectiveVersion"
    /\ UNCHANGED <<dataSourceEnabled, callWorkflows, callResult>>
    /\ UNCHANGED <<wsVars, mlVars, moreVars>>

\* filterPresetsByVersion(workflows, dataSourceId) is called
CallFilterPresetsByVersion(workflows, dataSourceId) ==
    /\ callPc = "idle"
    /\ callKind' = "fpv"
    /\ callDataSourceId' = dataSourceId
    /\ callWorkflows' = workflows
    /\ IF ~dataSourceEnabled
       THEN /\ callPc' = "resolved"
            /\ callResult' = workflows
            /\ UNCHANGED <<callLookups, callOutcome, callVersion>>
       ELSE IF dataSourceId = None
       THEN /\ callPc' = "resolved"
            /\ callResult' = <<>>
            /\ UNCHANGED <<callLookups, callOutcome, callVersion>>
       ELSE /\ StartLookup(dataSourceId)
            /\ UNCHANGED callResult
    /\ lastOp' = "CallFilterPresetsByVersion"
    /\ UNCHANGED dataSourceEnabled
    /\ UNCHANGED <<wsVars, mlVars, moreVars>>

\* the rest of the call once getEffectiveVersion has settled
AfterVersion(settled) ==
    IF settled.settled = "rejected"
    THEN /\ callPc' = "rejected"
         /\ UNCHANGED <<callVersion, callResult>>
    ELSE /\ callVersion' = settled.version
         /\ IF callKind = "fpv"
            THEN /\ callPc' = filterByVersion(callWorkflows, settled.version).settled
                 /\ callResult' = filterByVersion(callWorkflows, settled.version).result
            ELSE /\ callPc' = "resolved"
                 /\ UNCHANGED callResult

\* the console-proxy call settles
ProxyResponds(outcome) ==
    /\ callPc = "awaitProxy"
    /\ callOutcome' = outcome
    /\ AfterVersion(proxyVersion(outcome))
    /\ lastOp' = "ProxyResponds"
    /\ UNCHANGED <<dataSourceEnabled, callKind, callDataSourceId, callWorkflows,
                   callLookups>>
    /\ UNCHANGED <<wsVars, mlVars, moreVars>>

\* the saved-object lookup settles
SavedObjectResponds(outcome) ==
    /\ callPc = "awaitSavedObject"
    /\ callOutcome' = outcome
    /\ AfterVersion(savedObjectVersion(outcome))
    /\ lastOp' = "SavedObjectResponds"
    /\ UNCHANGED <<dataSourceEnabled, callKind, callDataSourceId, callWorkflows,
                   callLookups>>
    /\ UNCHANGED <<wsVars, mlVars, moreVars>>

\* the caller has taken the result; the next call can start
CallReturn ==
    /\ callPc \in {"resolved", "rejected"}
    /\ callKind' = "none"
    /\ callPc' = "idle"
    /\ callDataSourceId' = None
    /\ callWorkflows' = <<>>
    /\ callVersion' = NoVersion
    /\ callResult' = <<>>
    /\ callLookups' = 0
    /\ callOutcome' = NoOutcome
    /\ lastOp' = "CallReturn"
    /\ UNCHANGED dataSourceEnabled
    /\ UNCHANGED <<wsVars, mlVars, moreVars>>

NwNext ==
    \/ \E id \in DataSourceIds : CallGetEffectiveVersion(id)
    \/ \E wfs \in WorkflowLists, id \in DataSourceIds : CallFilterPresetsByVersion(wfs, id)
    \/ \E outcome \in LookupOutcomes : ProxyResponds(outcome)
    \/ \E outcome \in LookupOutcomes : SavedObjectResponds(outcome)
    \/ CallReturn

(***************************************************************************)
(* MLProcessorInputs: model selection, input / output maps, previews       *)
(***************************************************************************)
MaxMaps == 2
MaxProcessors == 1

Contexts == {"INGEST", "SEARCH_REQUEST", "SEARCH_RESPONSE"}

\* models[modelId]?.interface; defined = FALSE stands for undefined
NoInterface == [defined |-> FALSE, inputs |-> <<>>, outputs |-> <<>>]
ModelIds == {"model_embedding", "model_llm", "model_no_interface"}
InterfaceOf(id) ==
    IF id = "model_embedding"
    THEN [defined |-> TRUE, inputs |-> <<"text_docs">>, outputs |-> <<"embedding">>]
    ELSE IF id = "model_llm"
    THEN [defined |-> TRUE, inputs |-> <<"prompt", "context">>, outputs |-> <<"response">>]
    ELSE NoInterface

\* models[modelId]?.interface with the models loaded so far
lookupInterface(loaded, id) == IF id \in loaded THEN InterfaceOf(id) ELSE NoInterface

parseModelInputs(interface) == interface.inputs
parseModelOutputs(interface) == interface.outputs

BlankEntry(label) == [key |-> label, value |-> ""]
FilledEntry(entry) == [key |-> entry.key, value |-> "mapped_field"]
blankMap(labels) == [k \in 1..Len(labels) |-> BlankEntry(labels[k])]
filledMap(map) == [k \in 1..Len(map) |-> FilledEntry(map[k])]

\* faulty variant: the new inputs are appended to the maps already in the form
modelInputsAsForm_KeepOld(interface, old) ==
    old \o <<blankMap(parseModelInputs(interface))>>

\* the input_map value onModelChange writes
modelInputsAsForm(interface, old) == <<blankMap(parseModelInputs(interface))>>

\* the output_map value onModelChange writes
modelOutputsAsForm(interface, old) == <<blankMap(parseModelOutputs(interface))>>

\* !isEmpty(getIn(values, modelFieldPath)?.id): the inputs / outputs section is rendered
ModelSelected == modelId # ""

\* faulty variant: the length check also fires for an empty map array
EqualLengthCallout_NoEmptyCheck(inLen, outLen) == inLen # outLen

\* condition of the callout 'Input and output maps must have equal length if both are defined'
EqualLengthCallout(inLen, outLen) == inLen # outLen /\ inLen > 0 /\ outLen > 0

\* faulty variant: the callout asks for both maps to be empty
RequiredMapsCallout_BothEmpty(ctx, inLen, outLen) ==
    ctx = "SEARCH_REQUEST" /\ (inLen = 0 /\ outLen = 0)

\* condition of the callout 'Input and output maps are required for ML inference search
\* request processors'
RequiredMapsCallout(ctx, inLen, outLen) ==
    ctx = "SEARCH_REQUEST" /\ (inLen = 0 \/ outLen = 0)

\* what the user sees
EqualLengthCalloutDisplayed ==
    ModelSelected /\ EqualLengthCallout(Len(inputMapValue), Len(outputMapValue))
RequiredMapsCalloutDisplayed ==
    ModelSelected /\ RequiredMapsCallout(context, Len(inputMapValue), Len(outputMapValue))

\* faulty variant: output preview is offered for ingest only
OutputPreviewAvailable_IngestOnly(ctx) == ctx = "INGEST"

\* isOutputPreviewAvailable
OutputPreviewAvailable(ctx) == ctx # "SEARCH_REQUEST"

isOutputPreviewAvailable == OutputPreviewAvailable(context)

\* the processors in front of curProcessorId (the processor itself excluded)
RECURSIVE getPrecedingProcessors(_, _)
getPrecedingProcessors(allProcessors, curProcessorId) ==
    IF allProcessors = <<>> \/ Head(allProcessors) = curProcessorId THEN <<>>
    ELSE <<Head(allProcessors)>> \o getPrecedingProcessors(Tail(allProcessors), curProcessorId)

\* formikToPartialPipeline(values, uiConfig, curProcessorId, false, SEARCH_REQUEST):
\* the preceding processors as a pipeline, <<>> standing for undefined
formikToPartialPipeline(allProcessors, curProcessorId) ==
    getPrecedingProcessors(allProcessors, curProcessorId)

ThisProcessor == "ml_processor"
OtherProcessors == {"ml_processor_2", "ml_processor_3"}
ProcessorLists(ctx) ==
    {s \in SeqsUpTo(OtherProcessors \cup {ThisProcessor}, MaxProcessors + 1) :
        /\ \A i, j \in 1..Len(s) : i < j => s[i] # s[j]
        /\ ctx = "SEARCH_REQUEST" => \E i \in 1..Len(s) : s[i] = ThisProcessor
        /\ ctx # "SEARCH_REQUEST" => \A i \in 1..Len(s) : s[i] # ThisProcessor}

\* faulty variant: the effect also runs outside the search request context
InputPreviewEffect_AnyContext(ctx, allProcessors, before) ==
    formikToPartialPipeline(allProcessors, ThisProcessor) = <<>>

\* isInputPreviewAvailable after the effect on uiConfig.search.enrichRequest.processors
InputPreviewEffect(ctx, allProcessors, before) ==
    IF ctx = "SEARCH_REQUEST"
    THEN formikToPartialPipeline(allProcessors, ThisProcessor) = <<>>
    ELSE before

mlFormVars == <<models, modelId, inputMapValue, outputMapValue, inputMapTouched,
                outputMapTouched, modelInterface>>
mlPreviewVars == <<processors, isInputPreviewAvailable, isInputTransformModalOpen,
                   isOutputTransformModalOpen>>
mlFieldVars == <<ingestDocs, searchRequest, searchIndexName, docFields, queryFields,
                 indexMappingFields, pendingMappings>>

\* the models arrive in the store; the effect on [models] runs
ModelsLoaded ==
    /\ models = {}
    /\ models' = ModelIds
    /\ modelInterface' =
         IF modelId # "" THEN lookupInterface(ModelIds, modelId) ELSE modelInterface
    /\ lastOp' = "ModelsLoaded"
    /\ UNCHANGED <<context, modelId, inputMapValue, outputMapValue, inputMapTouched,
                   outputMapTouched, mlPreviewVars, mlFieldVars>>
    /\ UNCHANGED <<wsVars, nwVars, moreVars>>

\* the user picks a model in ModelField, which calls onModelChange(modelId)
onModelChange(id) ==
    /\ id \in models
    /\ modelId' = id
    /\ modelInterface' = lookupInterface(models, id)
    /\ inputMapValue' = modelInputsAsForm(lookupInterface(models, id), inputMapValue)
    /\ outputMapValue' = modelOutputsAsForm(lookupInterface(models, id), outputMapValue)
    /\ inputMapTouched' = FALSE
    /\ outputMapTouched' = FALSE
    /\ lastOp' = "onModelChange"
    /\ UNCHANGED <<context, models, mlPreviewVars, mlFieldVars>>
    /\ UNCHANGED <<wsVars, nwVars, moreVars>>

\* form edits made through ModelInputs: add a map, delete a map, fill in a map
AddInputMap ==
    /\ ModelSelected
    /\ Len(inputMapValue) < MaxMaps
    /\ inputMapValue' = Append(inputMapValue, <<>>)
    /\ inputMapTouched' = TRUE
    /\ lastOp' = "AddInputMap"
    /\ UNCHANGED <<context, models, modelId, outputMapValue, outputMapTouched,
                   modelInterface, mlPreviewVars, mlFieldVars>>
    /\ UNCHANGED <<wsVars, nwVars, moreVars>>

DeleteInputMap(i) ==
    /\ ModelSelected
    /\ i \in 1..Len(inputMapValue)
    /\ inputMapValue' = SubSeq(inputMapValue, 1, i - 1)
                          \o SubSeq(inputMapValue, i + 1, Len(inputMapValue))
    /\ inputMapTouched' = TRUE
    /\ lastOp' = "DeleteInputMap"
    /\ UNCHANGED <<context, models, modelId, outputMapValue, outputMapTouched,
                   modelInterface, mlPreviewVars, mlFieldVars>>
    /\ UNCHANGED <<wsVars, nwVars, moreVars>>

FillInputMap(i) ==
    /\ ModelSelected
    /\ i \in 1..Len(inputMapValue)
    /\ inputMapValue' = [inputMapValue EXCEPT ![i] = filledMap(inputMapValue[i])]
    /\ inputMapValue' # inputMapValue
    /\ inputMapTouched' = TRUE
    /\ lastOp' = "FillInputMap"
    /\ UNCHANGED <<context, models, modelId, outputMapValue, outputMapTouched,
                   modelInterface, mlPreviewVars, mlFieldVars>>
    /\ UNCHANGED <<wsVars, nwVars, moreVars>>

\* form edits made through ModelOutputs
AddOutputMap ==
    /\ ModelSelected
    /\ Len(outputMapValue) < MaxMaps
    /\ outputMapValue' = Append(outputMapValue, <<>>)
    /\ outputMapTouched' = TRUE
    /\ lastOp' = "AddOutputMap"
    /\ UNCHANGED <<context, models, modelId, inputMapValue, inputMapTouched,
                   modelInterface, mlPreviewVars, mlFieldVars>>
    /\ UNCHANGED <<wsVars, nwVars, moreVars>>

DeleteOutputMap(i) ==
    /\ ModelSelected
    /\ i \in 1..Len(outputMapValue)
    /\ outputMapValue' = SubSeq(outputMapValue, 1, i - 1)
                           \o SubSeq(outputMapValue, i + 1, Len(outputMapValue))
    /\ outputMapTouched' = TRUE
    /\ lastOp' = "DeleteOutputMap"
    /\ UNCHANGED <<context, models, modelId, inputMapValue, inputMapTouched,
                   modelInterface, mlPreviewVars, mlFieldVars>>
    /\ UNCHANGED <<wsVars, nwVars, moreVars>>

FillOutputMap(i) ==
    /\ ModelSelected
    /\ i \in 1..Len(outputMapValue)
    /\ outputMapValue' = [outputMapValue EXCEPT ![i] = filledMap(outputMapValue[i])]
    /\ outputMapValue' # outputMapValue
    /\ outputMapTouched' = TRUE
    /\ lastOp' = "FillOutputMap"
    /\ UNCHANGED <<context, models, modelId, inputMapValue, inputMapTouched,
                   modelInterface, mlPreviewVars, mlFieldVars>>
    /\ UNCHANGED <<wsVars, nwVars, moreVars>>

\* uiConfig.search.enrichRequest.processors changes; the preview effect runs
ProcessorsChange(allProcessors) ==
    /\ allProcessors # processors
    /\ processors' = allProcessors
    /\ isInputPreviewAvailable' =
         InputPreviewEffect(context, allProcessors, isInputPreviewAvailable)
    /\ lastOp' = "ProcessorsChange"
    /\ UNCHANGED <<context, mlFormVars, isInputTransformModalOpen,
                   isOutputTransformModalOpen, mlFieldVars>>
    /\ UNCHANGED <<wsVars, nwVars, moreVars>>

\* the 'Preview inputs' button: rendered with a model selected, disabled={!isInputPreviewAvailable}
ClickPreviewInputs ==
    /\ ModelSelected
    /\ isInputPreviewAvailable
    /\ ~isInputTransformModalOpen
    /\ isInputTransformModalOpen' = TRUE
    /\ lastOp' = "ClickPreviewInputs"
    /\ UNCHANGED <<context, mlFormVars, processors, isInputPreviewAvailable,
                   isOutputTransformModalOpen, mlFieldVars>>
    /\ UNCHANGED <<wsVars, nwVars, moreVars>>

\* the 'Preview outputs' button: disabled={!isOutputPreviewAvailable}
ClickPreviewOutputs ==
    /\ ModelSelected
    /\ isOutputPreviewAvailable
    /\ ~isOutputTransformModalOpen
    /\ isOutputTransformModalOpen' = TRUE
    /\ lastOp' = "ClickPreviewOutputs"
    /\ UNCHANGED <<context, mlFormVars, processors, isInputPreviewAvailable,
                   isInputTransformModalOpen, mlFieldVars>>
    /\ UNCHANGED <<wsVars, nwVars, moreVars>>

\* onClose of InputTransformModal
CloseInputTransformModal ==
    /\ isInputTransformModalOpen
    /\ isInputTransformModalOpen' = FALSE
    /\ lastOp' = "CloseInputTransformModal"
    /\ UNCHANGED <<context, mlFormVars, processors, isInputPreviewAvailable,
                   isOutputTransformModalOpen, mlFieldVars>>
    /\ UNCHANGED <<wsVars, nwVars, moreVars>>

\* onClose of OutputTransformModal
CloseOutputTransformModal ==
    /\ isOutputTransformModalOpen
    /\ isOutputTransformModalOpen' = FALSE
    /\ lastOp' = "CloseOutputTransformModal"
    /\ UNCHANGED <<context, mlFormVars, processors, isInputPreviewAvailable,
                   isInputTransformModalOpen, mlFieldVars>>
    /\ UNCHANGED <<wsVars, nwVars, moreVars>>

(***************************************************************************)
(* MLProcessorInputs: the field options of the input map                   *)
(*                                                                         *)
(* A JSON text is given by what JSON.parse makes of it: whether it parses, *)
(* and the object(s) it holds, each object as the list of the paths to its *)
(* leaves.  A string built from key segments is the sequence of its tokens *)
(* (segments, ".", "[", "]", quotes).                                      *)
(***************************************************************************)
\* key segments that parseInt reads as a number, and segments with a dash
NumericSegments == {"0"}
DashSegments == {"author-name", "item-id"}

DocA == << <<"title">>, <<"meta", "author-name">>, <<"tags", "0">> >>
DocB == << <<"text">> >>
EmptyObject == <<>>

\* values of the form field ingest.docs
IngestDocsValues ==
    {[parses |-> FALSE, docs |-> <<>>],
     [parses |-> TRUE, docs |-> <<>>],
     [parses |-> TRUE, docs |-> <<EmptyObject>>],
     [parses |-> TRUE, docs |-> <<DocA>>],
     [parses |-> TRUE, docs |-> <<DocB, DocA>>]}

QueryA == << <<"query", "match", "title", "query">> >>
QueryB == << <<"query", "term", "item-id", "value">>, <<"size">> >>

\* values of the form field search.request
SearchRequestValues ==
    {[parses |-> FALSE, object |-> EmptyObject],
     [parses |-> TRUE, object |-> EmptyObject],
     [parses |-> TRUE, object |-> QueryA],
     [parses |-> TRUE, object |-> QueryB]}

\* state.opensearch.indices and the mappings the cluster holds for them
Indices == {"index_docs", "index_empty", "index_other"}
SearchIndexNames == Indices \cup {None, "index_unknown"}
MappingsOf(index) ==
    IF index = "index_docs"
    THEN <<[name |-> "title", type |-> "text"], [name |-> "embedding", type |-> "knn_vector"]>>
    ELSE IF index = "index_other"
    THEN <<[name |-> "body", type |-> "text"]>>
    ELSE <<>>

\* the key flattie gives a leaf: the segments of its path joined by '.'
RECURSIVE joinPath(_)
joinPath(path) ==
    IF Len(path) <= 1 THEN path
    ELSE <<Head(path), ".">> \o joinPath(Tail(path))

\* Object.keys(flattie(object))
flattie(object) == [i \in 1..Len(object) |-> joinPath(object[i])]

\* path.split('.')
RECURSIVE splitPath(_)
splitPath(key) ==
    IF key = <<>> THEN <<>>
    ELSE IF Head(key) = "." THEN splitPath(Tail(key))
    ELSE <<Head(key)>> \o splitPath(Tail(key))

\* one step of the reduction in sanitizeJSONPath
sanitizeSegment(segment) ==
    IF segment \in NumericSegments THEN <<"[", segment, "]">>
    ELSE IF segment \in DashSegments THEN <<"[", "\"", segment, "\"", "]">>
    ELSE <<".", segment>>

RECURSIVE sanitizeRest(_)
sanitizeRest(segments) ==
    IF segments = <<>> THEN <<>>
    ELSE sanitizeSegment(Head(segments)) \o sanitizeRest(Tail(segments))

\* sanitizeJSONPath(path): bracket notation for array indices and keys with a dash
sanitizeJSONPath(key) ==
    IF key = <<>> THEN <<>>
    ELSE <<Head(splitPath(key))>> \o sanitizeRest(Tail(splitPath(key)))

\* faulty variant: every context but search response keeps the dotted key
fieldLabel_SanitizeResponseOnly(ctx, key) ==
    IF ctx = "SEARCH_RESPONSE" THEN sanitizeJSONPath(key) ELSE key

\* the label of a doc / query field option
fieldLabel(ctx, key) == IF ctx = "INGEST" THEN key ELSE sanitizeJSONPath(key)

LabelsOf(ctx, keys) == [i \in 1..Len(keys) |-> [label |-> fieldLabel(ctx, keys[i])]]

\* Object.keys(flattie(JSON.parse(values.ingest.docs)[0])) when JSON.parse succeeds
docObjKeys(value) == IF value.docs = <<>> THEN <<>> ELSE flattie(value.docs[1])

\* docFields after the effect on values.ingest.docs
docFieldsEffect(ctx, value, before) ==
    IF value.parses /\ Len(docObjKeys(value)) > 0
    THEN LabelsOf(ctx, docObjKeys(value))
    ELSE before

\* Object.keys(flattie(JSON.parse(values.search.request))) when JSON.parse succeeds
queryObjKeys(value) == flattie(value.object)

\* queryFields after the effect on values.search.request
queryFieldsEffect(ctx, value, before) ==
    IF value.parses /\ Len(queryObjKeys(value)) > 0
    THEN LabelsOf(ctx, queryObjKeys(value))
    ELSE before

\* the options a getMappings response is turned into
mappingOption(property) == [label |-> <<property.name>>, type |-> property.type]

\* indexMappingFields after a getMappings response
mappingFieldsEffect(properties, before) ==
    IF Len(properties) > 0
    THEN [i \in 1..Len(properties) |-> mappingOption(properties[i])]
    ELSE before

\* the getMappings requests in flight after the effect on values.search.index.name
mappingsRequested(indexName, pending) ==
    IF indexName # None /\ indexName \in Indices THEN pending \cup {indexName} ELSE pending

\* valueOptions passed to InputTransformModal
valueOptionsOf(ctx, docs, queries, mappings) ==
    IF ctx = "INGEST" THEN docs
    ELSE IF ctx = "SEARCH_REQUEST" THEN queries
    ELSE mappings

valueOptions == valueOptionsOf(context, docFields, queryFields, indexMappingFields)

\* the user edits the sample documents; the effect on values.ingest.docs runs
IngestDocsChange(value) ==
    /\ value # ingestDocs
    /\ ingestDocs' = value
    /\ docFields' = docFieldsEffect(context, value, docFields)
    /\ lastOp' = "IngestDocsChange"
    /\ UNCHANGED <<context, mlFormVars, mlPreviewVars, searchRequest, searchIndexName,
                   queryFields, indexMappingFields, pendingMappings>>
    /\ UNCHANGED <<wsVars, nwVars, moreVars>>

\* the user edits the search request; the effect on values.search.request runs
SearchRequestChange(value) ==
    /\ value # searchRequest
    /\ searchRequest' = value
    /\ queryFields' = queryFieldsEffect(context, value, queryFields)
    /\ lastOp' = "SearchRequestChange"
    /\ UNCHANGED <<context, mlFormVars, mlPreviewVars, ingestDocs, searchIndexName,
                   docFields, indexMappingFields, pendingMappings>>
    /\ UNCHANGED <<wsVars, nwVars, moreVars>>

\* another search index is selected; the effect on values.search.index.name runs
SearchIndexChange(indexName) ==
    /\ indexName # searchIndexName
    /\ searchIndexName' = indexName
    /\ pendingMappings' = mappingsRequested(indexName, pendingMappings)
    /\ lastOp' = "SearchIndexChange"
    /\ UNCHANGED <<context, mlFormVars, mlPreviewVars, ingestDocs, searchRequest,
                   docFields, queryFields, indexMappingFields>>
    /\ UNCHANGED <<wsVars, nwVars, moreVars>>

\* a getMappings request is fulfilled
MappingsFulfilled(index) ==
    /\ index \in pendingMappings
    /\ pendingMappings' = pendingMappings \ {index}
    /\ indexMappingFields' = mappingFieldsEffect(MappingsOf(index), indexMappingFields)
    /\ lastOp' = "MappingsFulfilled"
    /\ UNCHANGED <<context, mlFormVars, mlPreviewVars, ingestDocs, searchRequest,
                   searchIndexName, docFields, queryFields>>
    /\ UNCHANGED <<wsVars, nwVars, moreVars>>

\* a getMappings request is rejected: the promise chain has no handler for it
MappingsRejected(index) ==
    /\ index \in pendingMappings
    /\ pendingMappings' = pendingMappings \ {index}
    /\ lastOp' = "MappingsRejected"
    /\ UNCHANGED <<context, mlFormVars, mlPreviewVars, ingestDocs, searchRequest,
                   searchIndexName, docFields, queryFields, indexMappingFields>>
    /\ UNCHANGED <<wsVars, nwVars, moreVars>>

(***************************************************************************)
(* Initial states of MLProcessorInputs                                     *)
(***************************************************************************)
\* a processor just added (no model, empty maps) or one loaded with a model configured
MlFormInit ==
    /\ models \in {{}, ModelIds}
    /\ modelId \in {""} \cup ModelIds
    /\ inputMapValue =
         IF modelId = "" THEN <<>> ELSE modelInputsAsForm(InterfaceOf(modelId), <<>>)
    /\ outputMapValue =
         IF modelId = "" THEN <<>> ELSE modelOutputsAsForm(InterfaceOf(modelId), <<>>)
    /\ inputMapTouched = FALSE
    /\ outputMapTouched = FALSE
    \* the effect on [models] runs on mount
    /\ modelInterface =
         IF models # {} /\ modelId # "" THEN lookupInterface(models, modelId) ELSE NoInterface

MlPreviewInit ==
    /\ processors \in ProcessorLists(context)
    \* the preview effect runs on mount
    /\ isInputPreviewAvailable = InputPreviewEffect(context, processors, TRUE)
    /\ isInputTransformModalOpen = FALSE
    /\ isOutputTransformModalOpen = FALSE

MlFieldInit ==
    /\ ingestDocs \in IngestDocsValues
    /\ searchRequest \in SearchRequestValues
    /\ searchIndexName \in SearchIndexNames
    \* the three effects run on mount
    /\ docFields = docFieldsEffect(context, ingestDocs, <<>>)
    /\ queryFields = queryFieldsEffect(context, searchRequest, <<>>)
    /\ indexMappingFields = <<>>
    /\ pendingMappings = mappingsRequested(searchIndexName, {})

MlFormIdle ==
    /\ models = ModelIds
    /\ modelId = ""
    /\ inputMapValue = <<>>
    /\ outputMapValue = <<>>
    /\ inputMapTouched = FALSE
    /\ outputMapTouched = FALSE
    /\ modelInterface = NoInterface

MlPreviewIdle ==
    /\ processors = IF context = "SEARCH_REQUEST" THEN <<ThisProcessor>> ELSE <<>>
    /\ isInputPreviewAvailable = TRUE
    /\ isInputTransformModalOpen = FALSE
    /\ isOutputTransformModalOpen = FALSE

MlFieldIdle ==
    /\ ingestDocs = [parses |-> TRUE, docs |-> <<>>]
    /\ searchRequest = [parses |-> TRUE, object |-> EmptyObject]
    /\ searchIndexName = None
    /\ docFields = <<>>
    /\ queryFields = <<>>
    /\ indexMappingFields = <<>>
    /\ pendingMappings = {}

MlIdle ==
    /\ context = "INGEST"
    /\ MlFormIdle
    /\ MlPreviewIdle
    /\ MlFieldIdle

(***************************************************************************)
(* ResizableWorkspace: the read-only flag of the component input form      *)
(*                                                                         *)
(* A component id is the sequence of its dot-separated segments.           *)
(***************************************************************************)
\* the ids LeftNav can select; '' is <<>>
ComponentIds ==
    {<<>>, <<"ingest", "data">>, <<"ingest", "enrich", "search_helper">>,
     <<"search", "request">>, <<"search", "enrich_response", "ingest_helper">>}

\* id.startsWith(prefix), prefix a whole segment
startsWith(id, prefix) == Len(id) >= 1 /\ id[1] = prefix

onIngest == startsWith(selectedComponentId, "ingest")
onSearch == startsWith(selectedComponentId, "search")

\* faulty variant: either read-only flag blocks both contexts
readonly_AnyContext ==
    \/ ingestReadonly
    \/ searchReadonly
    \/ isProvisioning

\* the readonly prop of ComponentInput
readonly ==
    \/ onIngest /\ ingestReadonly
    \/ onSearch /\ searchReadonly
    \/ isProvisioning

RoIdle ==
    /\ selectedComponentId = <<>>
    /\ ingestReadonly = FALSE
    /\ searchReadonly = FALSE
    /\ isProvisioning = FALSE

\* the state setters handed to LeftNav
setSelectedComponentId(id) ==
    /\ selectedComponentId' = id
    /\ lastOp' = "setSelectedComponentId"
    /\ UNCHANGED <<ingestReadonly, searchReadonly, isProvisioning>>
    /\ UNCHANGED <<wsVars, nwVars, mlVars, csrVars, libVars>>

setIngestReadonly(flag) ==
    /\ ingestReadonly' = flag
    /\ lastOp' = "setIngestReadonly"
    /\ UNCHANGED <<selectedComponentId, searchReadonly, isProvisioning>>
    /\ UNCHANGED <<wsVars, nwVars, mlVars, csrVars, libVars>>

setSearchReadonly(flag) ==
    /\ searchReadonly' = flag
    /\ lastOp' = "setSearchReadonly"
    /\ UNCHANGED <<selectedComponentId, ingestReadonly, isProvisioning>>
    /\ UNCHANGED <<wsVars, nwVars, mlVars, csrVars, libVars>>

setIsProvisioning(flag) ==
    /\ isProvisioning' = flag
    /\ lastOp' = "setIsProvisioning"
    /\ UNCHANGED <<selectedComponentId, ingestReadonly, searchReadonly>>
    /\ UNCHANGED <<wsVars, nwVars, mlVars, csrVars, libVars>>

RoNext ==
    \/ \E id \in ComponentIds : setSelectedComponentId(id)
    \/ \E flag \in BOOLEAN : setIngestReadonly(flag)
    \/ \E flag \in BOOLEAN : setSearchReadonly(flag)
    \/ \E flag \in BOOLEAN : setIsProvisioning(flag)

(***************************************************************************)
(* ConfigureSearchRequest                                                  *)
(*                                                                         *)
(* The query response is the string props.setQueryResponse stored last,    *)
(* given as the sequence of its tokens; the empty string is <<>>.          *)
(***************************************************************************)
MaxRequests == 2

\* state.opensearch.indices, by name
IndexNames == {"idx-a", "idx-b"}

\* values.search.request
QueryTexts == {"", "term"}

\* the form values the component reads; None is undefined
FormValues ==
    [ingest_enabled : BOOLEAN,
     ingest_index_name : {None, "idx-a"},
     search_index_name : {None} \cup IndexNames,
     search_request : QueryTexts,
     search_enrichRequest : {<<>>, <<"ml_processor">>}]

\* how a searchIndex request can settle:
\*   rejected  the thunk is rejected
\*   nohits    the answer has no hits object
\*   ok        the answer carries hits.hits
SearchResponses ==
    {[kind |-> "rejected", hits |-> <<>>],
     [kind |-> "nohits", hits |-> <<>>],
     [kind |-> "ok", hits |-> <<>>],
     [kind |-> "ok", hits |-> <<[_id |-> "2", _source |-> "source-2"],
                                [_id |-> "1", _source |-> "source-1"]>>]}

NoResponse == [kind |-> "none", hits |-> <<>>]

\* the elements of a JSON array, separated by commas
RECURSIVE commaSeparated(_)
commaSeparated(items) ==
    IF items = <<>> THEN <<>>
    ELSE IF Len(items) = 1 THEN <<Head(items)>>
    ELSE <<Head(items), ",">> \o commaSeparated(Tail(items))

\* customStringify of an array
customStringify(items) == <<"[">> \o commaSeparated(items) \o <<"]">>

\* resp.hits.hits.map((hit) => hit._source)
hitSources(hits) == [k \in 1..Len(hits) |-> hits[k]._source]

\* faulty variant: a failed request leaves the response that was shown
queryResponseAfter_KeepOnFailure(resp, shown) ==
    IF resp.kind = "ok" THEN customStringify(hitSources(resp.hits))
    ELSE shown

\* what the .then / .catch handlers pass to props.setQueryResponse;
\* reading hits of an answer without hits throws inside .then and lands in .catch
queryResponseAfter(resp, shown) ==
    IF resp.kind = "ok" THEN customStringify(hitSources(resp.hits))
    ELSE <<>>

\* faulty variant: the request runs through the default search pipeline
testQuery_DefaultPipeline(formValues) ==
    [index |-> formValues.search_index_name,
     body |-> formValues.search_request,
     searchPipeline |-> None]

\* the apiBody of the test query
testQuery(formValues) ==
    [index |-> formValues.search_index_name,
     body |-> formValues.search_request,
     searchPipeline |-> "_none"]

\* faulty variant: the search index is overwritten whether or not ingest is enabled
initialLoad_Always(formValues) ==
    [formValues EXCEPT !.search_index_name = formValues.ingest_index_name]

\* the form values after the initial-load effect
initialLoad(formValues) ==
    IF formValues.ingest_enabled
    THEN [formValues EXCEPT !.search_index_name = formValues.ingest_index_name]
    ELSE formValues

\* the effect on values.search.request: props.setQuery unless the request is empty
queryEffect(request, stored) == IF request # "" THEN request ELSE stored

CsrIdle ==
    /\ values = [ingest_enabled |-> FALSE, ingest_index_name |-> None,
                 search_index_name |-> None, search_request |-> "",
                 search_enrichRequest |-> <<>>]
    /\ csrMounted = FALSE
    /\ selectedIndex = None
    /\ searchIndexTouched = FALSE
    /\ isEditModalOpen = FALSE
    /\ query = ""
    /\ queryResponse = <<>>
    /\ requests = <<>>
    /\ latestPending = FALSE
    /\ latestOutcome = NoResponse
    /\ lastChain = "none"
    /\ lastResponse = NoResponse

\* the first render: the hooks have their initial values, no effect has run
CsrInit ==
    /\ values \in FormValues
    /\ csrMounted = FALSE
    /\ selectedIndex = values.search_index_name
    /\ searchIndexTouched = FALSE
    /\ isEditModalOpen = FALSE
    /\ query = ""
    /\ queryResponse = <<>>
    /\ requests = <<>>
    /\ latestPending = FALSE
    /\ latestOutcome = NoResponse
    /\ lastChain = "none"
    /\ lastResponse = NoResponse

\* the effects of the first render: the initial load and the query effect
Mount ==
    /\ ~csrMounted
    /\ csrMounted' = TRUE
    /\ values' = initialLoad(values)
    /\ query' = queryEffect(values.search_request, query)
    /\ lastOp' = "Mount"
    /\ UNCHANGED <<selectedIndex, searchIndexTouched, isEditModalOpen, queryResponse,
                   requests, latestPending, latestOutcome, lastChain, lastResponse>>
    /\ UNCHANGED <<wsVars, nwVars, mlVars, roVars, libVars>>

\* onChange of the index select, rendered when ingest is not enabled
SelectIndex(option) ==
    /\ csrMounted
    /\ ~values.ingest_enabled
    /\ selectedIndex' = option
    /\ values' = [values EXCEPT !.search_index_name = option]
    /\ searchIndexTouched' = TRUE
    /\ lastOp' = "SelectIndex"
    /\ UNCHANGED <<csrMounted, isEditModalOpen, query, queryResponse, requests,
                   latestPending, latestOutcome, lastChain, lastResponse>>
    /\ UNCHANGED <<wsVars, nwVars, mlVars, roVars, libVars>>

\* onClick of Edit
OpenEditModal ==
    /\ csrMounted
    /\ ~isEditModalOpen
    /\ isEditModalOpen' = TRUE
    /\ lastOp' = "OpenEditModal"
    /\ UNCHANGED <<values, csrMounted, selectedIndex, searchIndexTouched, query,
                   queryResponse, requests, latestPending, latestOutcome, lastChain, lastResponse>>
    /\ UNCHANGED <<wsVars, nwVars, mlVars, roVars, libVars>>

\* EditQueryModal stores a request in search.request and closes;
\* the query effect follows when the value has changed
EditQuery(request) ==
    /\ isEditModalOpen
    /\ isEditModalOpen' = FALSE
    /\ values' = [values EXCEPT !.search_request = request]
    /\ query' = IF request # values.search_request
                THEN queryEffect(request, query) ELSE query
    /\ lastOp' = "EditQuery"
    /\ UNCHANGED <<csrMounted, selectedIndex, searchIndexTouched, queryResponse,
                   requests, latestPending, latestOutcome, lastChain, lastResponse>>
    /\ UNCHANGED <<wsVars, nwVars, mlVars, roVars, libVars>>

\* onClick of Test: the searchIndex thunk is dispatched
ClickTest ==
    /\ csrMounted
    /\ Len(requests) < MaxRequests
    /\ requests' = Append(requests, testQuery(values))
    /\ latestPending' = TRUE
    /\ latestOutcome' = NoResponse
    /\ lastOp' = "ClickTest"
    /\ UNCHANGED <<values, csrMounted, selectedIndex, searchIndexTouched,
                   isEditModalOpen, query, queryResponse, lastChain, lastResponse>>
    /\ UNCHANGED <<wsVars, nwVars, mlVars, roVars, libVars>>

\* the requests still in flight once request i has settled
withoutRequest(i) ==
    SubSeq(requests, 1, i - 1) \o SubSeq(requests, i + 1, Len(requests))

\* request i settles: the .then / .catch handlers of its click run
TestResponds(i, resp) ==
    /\ i \in 1..Len(requests)
    /\ queryResponse' = queryResponseAfter(resp, queryResponse)
    /\ lastChain' = "fulfilled"
    /\ lastResponse' = resp
    /\ requests' = withoutRequest(i)
    /\ IF i = Len(requests) /\ latestPending
       THEN /\ latestPending' = FALSE
            /\ latestOutcome' = resp
       ELSE UNCHANGED <<latestPending, latestOutcome>>
    /\ lastOp' = "TestResponds"
    /\ UNCHANGED <<values, csrMounted, selectedIndex, searchIndexTouched,
                   isEditModalOpen, query>>
    /\ UNCHANGED <<wsVars, nwVars, mlVars, roVars, libVars>>

CsrNext ==
    \/ Mount
    \/ \E option \in IndexNames : SelectIndex(option)
    \/ OpenEditModal
    \/ \E request \in QueryTexts : EditQuery(request)
    \/ ClickTest
    \/ \E i \in 1..MaxRequests, resp \in SearchResponses : TestResponds(i, resp)

(***************************************************************************)
(* NewWorkflow: the preset library                                         *)
(*                                                                         *)
(* A preset name and the search query are sequences of characters.         *)
(***************************************************************************)
MaxLoads == 2

\* what getWorkflowPresets stores in state.presets.presetWorkflows
LoadedPresets ==
    <<[name |-> <<"R", "A", "G">>, type |-> "VECTOR_SEARCH_WITH_RAG"],
      [name |-> <<"H", "y", "b">>, type |-> "HYBRID_SEARCH"],
      [name |-> <<"S", "e", "m">>, type |-> "SEMANTIC_SEARCH"]>>

\* what the user can have typed in the search bar
SearchQueries == {<<>>, <<"a", "g">>, <<"S">>}

\* the versions a lookup answers in this component
LibraryOutcomes ==
    {[kind |-> "failed", version |-> NoVersion],
     [kind |-> "ok", version |-> <<2, 16, 3>>],
     [kind |-> "ok", version |-> <<3, 0, 0>>],
     [kind |-> "ok", version |-> NoVersion]}

\* enrichPresetWorkflowWithUiMetadata: the preset with the UI flow generated for version
enrichPresetWorkflowWithUiMetadata(presetWorkflow, version) ==
    [name |-> presetWorkflow.name, type |-> presetWorkflow.type, version |-> version]

\* presetWorkflows.map(enrichPresetWorkflowWithUiMetadata(_, version))
enrichedWorkflows(presets, version) ==
    [k \in 1..Len(presets) |-> enrichPresetWorkflowWithUiMetadata(presets[k], version)]

\* String.toLowerCase, character by character
toLowerChar(c) ==
    CASE c = "A" -> "a"
      [] c = "G" -> "g"
      [] c = "H" -> "h"
      [] c = "R" -> "r"
      [] c = "S" -> "s"
      [] OTHER -> c

toLowerCase(s) == [k \in 1..Len(s) |-> toLowerChar(s[k])]

\* String.includes
includes(s, sub) ==
    \E k \in 0..(Len(s) - Len(sub)) : SubSeq(s, k + 1, k + Len(sub)) = sub

\* faulty variant: the match is case-sensitive
nameMatches_CaseSensitive(workflow, q) == includes(workflow.name, q)

\* the predicate of the filter in fetchFilteredWorkflows
nameMatches(workflow, q) == includes(toLowerCase(workflow.name), toLowerCase(q))

RECURSIVE filterByName(_, _)
filterByName(workflows, q) ==
    IF workflows = <<>> THEN <<>>
    ELSE IF nameMatches(Head(workflows), q)
         THEN <<Head(workflows)>> \o filterByName(Tail(workflows), q)
    ELSE filterByName(Tail(workflows), q)

fetchFilteredWorkflows(workflows, q) ==
    IF Len(q) = 0 THEN workflows ELSE filterByName(workflows, q)

\* faulty variant: without data sources the presets are enriched for the minimum version
workflowsWithoutDataSources_MinVersion(presets) ==
    enrichedWorkflows(presets, MIN_SUPPORTED_VERSION)

\* the list loadWorkflows displays when multi-data-source is disabled
workflowsWithoutDataSources(presets) ==
    enrichedWorkflows(presets, MINIMUM_FULL_SUPPORTED_VERSION)

\* what getEffectiveVersion(id) resolves to once its lookup has answered
effectiveVersion(id, outcome) ==
    IF id = "" THEN proxyVersion(outcome) ELSE savedObjectVersion(outcome)

LibIdle ==
    /\ presetWorkflows = <<>>
    /\ currentDataSourceId = None
    /\ allWorkflows = <<>>
    /\ filteredWorkflows = <<>>
    /\ isVersionLoading = FALSE
    /\ searchQuery = <<>>
    /\ loads = <<>>
    /\ loadLatest = "none"
    /\ shownFor = "none"

\* after the first render: the presets are not fetched yet, loadWorkflows has returned early
LibInit ==
    /\ presetWorkflows = <<>>
    /\ currentDataSourceId \in DataSourceIds
    /\ allWorkflows = <<>>
    /\ filteredWorkflows = <<>>
    /\ isVersionLoading = FALSE
    /\ searchQuery = <<>>
    /\ loads = <<>>
    /\ loadLatest = "none"
    /\ shownFor = "none"

\* the effect on [presetWorkflows, dataSourceId, dataSourceEnabled]:
\* loadWorkflows up to its first await, with the effect on [allWorkflows] after it
loadWorkflows(presets, id) ==
    IF Len(presets) = 0
    THEN UNCHANGED <<allWorkflows, filteredWorkflows, isVersionLoading, loads,
                     loadLatest, shownFor>>
    ELSE IF ~dataSourceEnabled
    THEN /\ allWorkflows' = workflowsWithoutDataSources(presets)
         /\ filteredWorkflows' = workflowsWithoutDataSources(presets)
         /\ isVersionLoading' = FALSE
         /\ loadLatest' = "done"
         /\ shownFor' = id
         /\ UNCHANGED loads
    ELSE IF id = None
    THEN /\ allWorkflows' = <<>>
         /\ filteredWorkflows' = <<>>
         /\ isVersionLoading' = TRUE
         /\ loadLatest' = "done"
         /\ shownFor' = id
         /\ UNCHANGED loads
    ELSE /\ isVersionLoading' = TRUE
         /\ loads' = Append(loads, [dataSourceId |-> id, presetWorkflows |-> presets,
                                    pc |-> "awaitVersion", version |-> NoVersion])
         /\ loadLatest' = "pending"
         /\ UNCHANGED <<allWorkflows, filteredWorkflows, shownFor>>

\* getWorkflowPresets is fulfilled: the store holds a new presets array
PresetsLoaded ==
    /\ Len(loads) < MaxLoads
    /\ presetWorkflows' = LoadedPresets
    /\ loadWorkflows(LoadedPresets, currentDataSourceId)
    /\ lastOp' = "PresetsLoaded"
    /\ UNCHANGED <<currentDataSourceId, searchQuery>>
    /\ UNCHANGED <<wsVars, nwVars, mlVars, roVars, csrVars>>

\* the user selects another data source
DataSourceChange(id) ==
    /\ id # currentDataSourceId
    /\ Len(loads) < MaxLoads
    /\ currentDataSourceId' = id
    /\ loadWorkflows(presetWorkflows, id)
    /\ lastOp' = "DataSourceChange"
    /\ UNCHANGED <<presetWorkflows, searchQuery>>
    /\ UNCHANGED <<wsVars, nwVars, mlVars, roVars, csrVars>>

\* the invocations still suspended once invocation i has ended
withoutLoad(i) == SubSeq(loads, 1, i - 1) \o SubSeq(loads, i + 1, Len(loads))

isLatestLoad(i) == i = Len(loads) /\ loadLatest = "pending"

\* the lookup of `await getEffectiveVersion(dataSourceId)` answers: the presets are
\* enriched and filterPresetsByVersion starts its own lookup
VersionResponds(i, outcome) ==
    /\ i \in 1..Len(loads)
    /\ loads[i].pc = "awaitVersion"
    /\ loads' = [loads EXCEPT ![i] =
                    [loads[i] EXCEPT !.pc = "awaitFilter",
                                     !.version = effectiveVersion(loads[i].dataSourceId,
                                                                  outcome).version]]
    /\ lastOp' = "VersionResponds"
    /\ UNCHANGED <<presetWorkflows, currentDataSourceId, allWorkflows, filteredWorkflows,
                   isVersionLoading, searchQuery, loadLatest, shownFor>>
    /\ UNCHANGED <<wsVars, nwVars, mlVars, roVars, csrVars>>

\* what `await filterPresetsByVersion(enrichedWorkflows, dataSourceId)` settles to
versionFilteredWorkflows(load, outcome) ==
    filterByVersion(enrichedWorkflows(load.presetWorkflows, load.version),
                    effectiveVersion(load.dataSourceId, outcome).version)

\* the lookup of filterPresetsByVersion answers: loadWorkflows runs to its end,
\* or is rejected when semver cannot read the version
FilterResponds(i, outcome) ==
    /\ i \in 1..Len(loads)
    /\ loads[i].pc = "awaitFilter"
    /\ loads' = withoutLoad(i)
    /\ IF versionFilteredWorkflows(loads[i], outcome).settled = "rejected"
       THEN /\ loadLatest' = IF isLatestLoad(i) THEN "rejected" ELSE loadLatest
            /\ UNCHANGED <<allWorkflows, filteredWorkflows, isVersionLoading, shownFor>>
       ELSE /\ allWorkflows' = versionFilteredWorkflows(loads[i], outcome).result
            /\ filteredWorkflows' = versionFilteredWorkflows(loads[i], outcome).result
            /\ isVersionLoading' = FALSE
            /\ shownFor' = loads[i].dataSourceId
            /\ loadLatest' = IF isLatestLoad(i) THEN "done" ELSE loadLatest
    /\ lastOp' = "FilterResponds"
    /\ UNCHANGED <<presetWorkflows, currentDataSourceId, searchQuery>>
    /\ UNCHANGED <<wsVars, nwVars, mlVars, roVars, csrVars>>

\* the debounced setSearchQuery runs with another query: the effect on [searchQuery]
SearchQueryChange(q) ==
    /\ q # searchQuery
    /\ searchQuery' = q
    /\ filteredWorkflows' = fetchFilteredWorkflows(allWorkflows, q)
    /\ lastOp' = "SearchQueryChange"
    /\ UNCHANGED <<presetWorkflows, currentDataSourceId, allWorkflows, isVersionLoading, loads,
                   loadLatest, shownFor>>
    /\ UNCHANGED <<wsVars, nwVars, mlVars, roVars, csrVars>>

LibNext ==
    \/ PresetsLoaded
    \/ \E id \in DataSourceIds : DataSourceChange(id)
    \/ \E i \in 1..MaxLoads, outcome \in LibraryOutcomes : VersionResponds(i, outcome)
    \/ \E i \in 1..MaxLoads, outcome \in LibraryOutcomes : FilterResponds(i, outcome)
    \/ \E q \in SearchQueries : SearchQueryChange(q)

MoreIdle ==
    /\ RoIdle
    /\ CsrIdle
    /\ LibIdle

(***************************************************************************)
(* Specifications                                                          *)
(***************************************************************************)
InitWorkspace ==
    /\ WsInit
    /\ dataSourceEnabled = TRUE
    /\ NwIdle
    /\ MlIdle
    /\ MoreIdle
    /\ lastOp = "init"

NextWorkspace == WsNext

SpecWorkspace == InitWorkspace /\ [][NextWorkspace]_vars

InitPresets ==
    /\ NwInit
    /\ WsIdle
    /\ MlIdle
    /\ MoreIdle
    /\ lastOp = "init"

NextPresets == NwNext

SpecPresets == InitPresets /\ [][NextPresets]_vars

OthersIdle ==
    /\ WsIdle
    /\ dataSourceEnabled = TRUE
    /\ NwIdle
    /\ MoreIdle
    /\ lastOp = "init"

\* model selection, the input / output maps and the preview buttons
InitML ==
    /\ context \in Contexts
    /\ MlFormInit
    /\ MlPreviewInit
    /\ MlFieldIdle
    /\ OthersIdle

NextML ==
    \/ ModelsLoaded
    \/ \E id \in ModelIds : onModelChange(id)
    \/ AddInputMap
    \/ \E i \in 1..MaxMaps : DeleteInputMap(i)
    \/ \E i \in 1..MaxMaps : FillInputMap(i)
    \/ AddOutputMap
    \/ \E i \in 1..MaxMaps : DeleteOutputMap(i)
    \/ \E i \in 1..MaxMaps : FillOutputMap(i)
    \/ \E allProcessors \in ProcessorLists(context) : ProcessorsChange(allProcessors)
    \/ ClickPreviewInputs
    \/ ClickPreviewOutputs
    \/ CloseInputTransformModal
    \/ CloseOutputTransformModal

SpecML == InitML /\ [][NextML]_vars

\* the field options of the input map
InitMLFields ==
    /\ context \in Contexts
    /\ MlFormIdle
    /\ MlPreviewIdle
    /\ MlFieldInit
    /\ OthersIdle

NextMLFields ==
    \/ \E value \in IngestDocsValues : IngestDocsChange(value)
    \/ \E value \in SearchRequestValues : SearchRequestChange(value)
    \/ \E indexName \in SearchIndexNames : SearchIndexChange(indexName)
    \/ \E index \in Indices : MappingsFulfilled(index)
    \/ \E index \in Indices : MappingsRejected(index)

SpecMLFields == InitMLFields /\ [][NextMLFields]_vars

\* the read-only flag of the component input form
InitReadonly ==
    /\ WsIdle
    /\ dataSourceEnabled = TRUE
    /\ NwIdle
    /\ MlIdle
    /\ RoIdle
    /\ CsrIdle
    /\ LibIdle
    /\ lastOp = "init"

NextReadonly == RoNext

SpecReadonly == InitReadonly /\ [][NextReadonly]_vars

\* ConfigureSearchRequest
InitSearchRequest ==
    /\ WsIdle
    /\ dataSourceEnabled = TRUE
    /\ NwIdle
    /\ MlIdle
    /\ RoIdle
    /\ CsrInit
    /\ LibIdle
    /\ lastOp = "init"

NextSearchRequest == CsrNext

SpecSearchRequest == InitSearchRequest /\ [][NextSearchRequest]_vars

\* NewWorkflow
InitLibrary ==
    /\ WsIdle
    /\ dataSourceEnabled \in BOOLEAN
    /\ NwIdle
    /\ MlIdle
    /\ RoIdle
    /\ CsrIdle
    /\ LibInit
    /\ lastOp = "init"

NextLibrary == LibNext

SpecLibrary == InitLibrary /\ [][NextLibrary]_vars

(***************************************************************************)
(* Properties of ResizableWorkspace                                        *)
(***************************************************************************)
\* C1: whenever the error sources change to a combination with at least one non-empty
\* source, the error effect leaves a non-empty console error list and an open console
\* panel, whether the console was open or closed before.
C1_ErrorsOpenConsole ==
    [][(/\ ErrorSources' # ErrorSources
        /\ HasErrors(opensearchError', workflowsError', workflowError',
                     ingestPipelineErrors', searchPipelineErrors'))
       => (Len(consoleErrorMessages') > 0 /\ isConsolePanelOpen' = TRUE)]_vars

\* the error effect has just run on a pipeline error and the console shows it
C1_Witness ==
    /\ lastOp = "ErrorsChange"
    /\ Len(ingestPipelineErrors) > 0
    /\ opensearchError = ""
    /\ workflowsError = ""
    /\ workflowError = None
    /\ isConsolePanelOpen
    /\ Len(consoleErrorMessages) = 1 + Len(ingestPipelineErrors)

SearchPresetTypes == {"SEMANTIC_SEARCH", "MULTIMODAL_SEARCH", "HYBRID_SEARCH"}

\* C3: with multi-data-source enabled and a defined data source id, filterPresetsByVersion
\* returns nothing below MIN_SUPPORTED_VERSION, the semantic / multimodal / hybrid search
\* presets in input order from MIN_SUPPORTED_VERSION up to (not including)
\* MINIMUM_FULL_SUPPORTED_VERSION, and the whole input from there on.
C3_FilterByVersion ==
    (/\ callKind = "fpv"
     /\ callPc = "resolved"
     /\ dataSourceEnabled
     /\ callDataSourceId # None)
    => /\ Len(callVersion) = 3
       /\ semverLt(callVersion, MIN_SUPPORTED_VERSION) => callResult = <<>>
       /\ (/\ ~semverLt(callVersion, MIN_SUPPORTED_VERSION)
           /\ semverLt(callVersion, MINIMUM_FULL_SUPPORTED_VERSION))
          => callResult = SelectSeq(callWorkflows, LAMBDA w : w.type \in SearchPresetTypes)
       /\ ~semverLt(callVersion, MINIMUM_FULL_SUPPORTED_VERSION)
          => callResult = callWorkflows

\* a 2.18 cluster: a search preset is kept and a preset of another type is dropped
C3_Witness ==
    /\ callKind = "fpv"
    /\ callPc = "resolved"
    /\ dataSourceEnabled
    /\ callDataSourceId = "ds-1"
    /\ callVersion = <<2, 18, 1>>
    /\ Len(callWorkflows) = 2
    /\ Len(callResult) = 1

\* C4: getEffectiveVersion never rejects; it resolves to MIN_SUPPORTED_VERSION for an
\* undefined data source id, for a failed console-proxy call, for a failed saved-object
\* lookup and for a data source found without a dataSourceVersion; it issues at most one
\* lookup per call.
C4_EffectiveVersionNeverRejects ==
    callKind = "gev"
    => /\ callPc # "rejected"
       /\ callLookups <= 1
       /\ callDataSourceId = None => callLookups = 0
       /\ (/\ callPc = "resolved"
           /\ \/ callDataSourceId = None
              \/ callOutcome.kind = "failed"
              \/ /\ callDataSourceId \notin {None, ""}
                 /\ callOutcome.kind = "ok"
                 /\ callOutcome.version = NoVersion)
          => callVersion = MIN_SUPPORTED_VERSION

\* the single saved-object lookup failed and the call resolved all the same
C4_Witness ==
    /\ callKind = "gev"
    /\ callPc = "resolved"
    /\ callDataSourceId = "ds-1"
    /\ callOutcome.kind = "failed"
    /\ callLookups = 1
    /\ callVersion = MIN_SUPPORTED_VERSION

(***************************************************************************)
(* Properties of MLProcessorInputs                                         *)
(***************************************************************************)
\* C5: the callout 'Input and output maps must have equal length if both are defined' is
\* displayed exactly when input_map and output_map differ in length and both lengths are
\* greater than zero; never when a map is empty or the lengths are equal.
C5_EqualLengthCallout ==
    /\ EqualLengthCalloutDisplayed
         <=> (/\ Len(inputMapValue) # Len(outputMapValue)
              /\ Len(inputMapValue) >= 1
              /\ Len(outputMapValue) >= 1)
    /\ (Len(inputMapValue) = 0 \/ Len(outputMapValue) = 0) => ~EqualLengthCalloutDisplayed
    /\ Len(inputMapValue) = Len(outputMapValue) => ~EqualLengthCalloutDisplayed

\* two input maps against one output map: the callout is shown
C5_Witness ==
    /\ Len(inputMapValue) = 2
    /\ Len(outputMapValue) = 1
    /\ EqualLengthCalloutDisplayed

\* C6 as stated: the callout 'Input and output maps are required for ML inference search
\* request processors' is displayed exactly when the context is SEARCH_REQUEST and one of
\* input_map and output_map has length zero.
C6_Original ==
    RequiredMapsCalloutDisplayed
      <=> (/\ context = "SEARCH_REQUEST"
           /\ (Len(inputMapValue) = 0 \/ Len(outputMapValue) = 0))

\* C6 amended: the callout is displayed exactly when a model is selected, the context is
\* SEARCH_REQUEST and one of input_map and output_map has length zero; in the ingest and
\* search-response contexts it is never displayed.
C6_RequiredMapsCallout ==
    /\ RequiredMapsCalloutDisplayed
         <=> (/\ modelId # ""
              /\ context = "SEARCH_REQUEST"
              /\ (Len(inputMapValue) = 0 \/ Len(outputMapValue) = 0))
    /\ context \in {"INGEST", "SEARCH_RESPONSE"} => ~RequiredMapsCalloutDisplayed

\* a search request processor with a model and its only output map deleted
C6_Witness ==
    /\ context = "SEARCH_REQUEST"
    /\ modelId # ""
    /\ Len(inputMapValue) = 1
    /\ Len(outputMapValue) = 0
    /\ RequiredMapsCalloutDisplayed

\* C7: after onModelChange the input_map and output_map form values are one-element
\* arrays whose map has one entry per input (output) of the new model's interface, each
\* with the empty string as value; both fields are untouched; the stored interface is the
\* new model's (undefined if it has none).
C7_ModelChangeResetsMaps ==
    lastOp = "onModelChange"
    => /\ Len(inputMapValue) = 1
       /\ Len(inputMapValue[1]) = Len(InterfaceOf(modelId).inputs)
       /\ \A k \in 1..Len(inputMapValue[1]) :
            /\ inputMapValue[1][k].key = InterfaceOf(modelId).inputs[k]
            /\ inputMapValue[1][k].value = ""
       /\ Len(outputMapValue) = 1
       /\ Len(outputMapValue[1]) = Len(InterfaceOf(modelId).outputs)
       /\ \A k \in 1..Len(outputMapValue[1]) :
            /\ outputMapValue[1][k].key = InterfaceOf(modelId).outputs[k]
            /\ outputMapValue[1][k].value = ""
       /\ ~inputMapTouched
       /\ ~outputMapTouched
       /\ modelInterface = InterfaceOf(modelId)
       /\ modelId = "model_no_interface" => ~modelInterface.defined

\* the model with two inputs was just selected
C7_Witness ==
    /\ lastOp = "onModelChange"
    /\ modelId = "model_llm"
    /\ Len(inputMapValue) = 1
    /\ Len(inputMapValue[1]) = 2

\* C8: 'Preview outputs' is disabled exactly in the SEARCH_REQUEST context; there the
\* output preview never opens, and in the ingest and search-response contexts the button
\* can be used whenever it is rendered.
C8_OutputPreviewByContext ==
    /\ ~isOutputPreviewAvailable <=> context = "SEARCH_REQUEST"
    /\ context = "SEARCH_REQUEST" => ~isOutputTransformModalOpen
    /\ (context # "SEARCH_REQUEST" /\ ModelSelected /\ ~isOutputTransformModalOpen)
       => ENABLED ClickPreviewOutputs

\* the output preview was opened for a search response processor
C8_Witness ==
    /\ context = "SEARCH_RESPONSE"
    /\ lastOp = "ClickPreviewOutputs"
    /\ isOutputTransformModalOpen

\* C9: 'Preview inputs' is disabled only in the SEARCH_REQUEST context and only while
\* other search request processors precede this one; in the other contexts it is always
\* enabled; in SEARCH_REQUEST it follows every change of the processor list.
C9_InputPreviewByContext ==
    /\ ~isInputPreviewAvailable
         => (/\ context = "SEARCH_REQUEST"
             /\ \E k \in 2..Len(processors) : processors[k] = ThisProcessor)
    /\ context \in {"INGEST", "SEARCH_RESPONSE"} => isInputPreviewAvailable
    /\ context = "SEARCH_REQUEST"
         => (isInputPreviewAvailable <=> processors[1] = ThisProcessor)

\* a processor was put in front of this search request processor
C9_Witness ==
    /\ context = "SEARCH_REQUEST"
    /\ lastOp = "ProcessorsChange"
    /\ Len(processors) = 2
    /\ processors[2] = ThisProcessor
    /\ ~isInputPreviewAvailable

\* the options a JSON value stands for: one per flattened key, in key order
DottedOptions(keys) == [i \in 1..Len(keys) |-> [label |-> keys[i]]]
SanitizedOptions(keys) == [i \in 1..Len(keys) |-> [label |-> sanitizeJSONPath(keys[i])]]
PropertyOptions(properties) ==
    [i \in 1..Len(properties) |->
        [label |-> <<properties[i].name>>, type |-> properties[i].type]]

FirstDocKeys(value) ==
    IF value.parses /\ Len(value.docs) > 0 THEN flattie(value.docs[1]) ELSE <<>>
RequestKeys(value) == IF value.parses THEN flattie(value.object) ELSE <<>>

\* a label in bracket notation
IsBracketed(label) == \E k \in 1..Len(label) : label[k] = "["

C11_TestQueryBypassesPipeline ==
    /\ [](\A k \in 1..Len(requests) : requests[k].searchPipeline = "_none")
    /\ [][Len(requests') > Len(requests) =>
            /\ lastOp' = "ClickTest"
            /\ Len(requests') = Len(requests) + 1
            /\ SubSeq(requests', 1, Len(requests)) = requests
            /\ requests'[Len(requests')].index = values.search_index_name
            /\ requests'[Len(requests')].body = values.search_request
            /\ requests'[Len(requests')].searchPipeline = "_none"]_vars

\* a test query for a chosen index is in flight while the workflow has a search
\* request processor configured
C11_Witness ==
    /\ lastOp = "ClickTest"
    /\ values.search_enrichRequest # <<>>
    /\ requests # <<>>
    /\ requests[Len(requests)].index = "idx-b"
    /\ requests[Len(requests)].body = "term"

\* the string a list of at most two hits is shown as
ShownHits(hits) ==
    IF Len(hits) = 0 THEN <<"[", "]">>
    ELSE IF Len(hits) = 1 THEN <<"[", hits[1]._source, "]">>
    ELSE <<"[", hits[1]._source, ",", hits[2]._source, "]">>

\* C12: when a test query fails the query response becomes the empty string, the
\* promise chain of the click ends fulfilled (nothing is rethrown) and no request is
\* issued by the failure; when it succeeds the query response becomes the
\* stringified list of the _source objects of the hits, in hit order.  A request is
\* issued by a click on Test only.
C12_TestQueryOutcome ==
    [][/\ Len(requests') > Len(requests) => lastOp' = "ClickTest"
       /\ Len(requests') < Len(requests) =>
            /\ Len(requests') = Len(requests) - 1
            /\ lastChain' = "fulfilled"
            /\ lastResponse'.kind = "rejected" => queryResponse' = <<>>
            /\ lastResponse'.kind = "ok" => queryResponse' = ShownHits(lastResponse'.hits)]_vars

\* the test query of the latest click has failed: the response
\* shown is empty and nothing is in flight
C12_Witness ==
    /\ lastOp = "TestResponds"
    /\ lastResponse.kind = "rejected"
    /\ latestOutcome.kind = "rejected"
    /\ queryResponse = <<>>
    /\ requests = <<>>

C14_ReadonlyByContext ==
    /\ readonly <=>
           \/ selectedComponentId # <<>> /\ Head(selectedComponentId) = "ingest"
                                        /\ ingestReadonly
           \/ selectedComponentId # <<>> /\ Head(selectedComponentId) = "search"
                                        /\ searchReadonly
           \/ isProvisioning
    /\ (onIngest /\ ~ingestReadonly /\ ~isProvisioning) => ~readonly
    /\ (onSearch /\ ~searchReadonly /\ ~isProvisioning) => ~readonly
    /\ selectedComponentId = <<>> => (readonly <=> isProvisioning)

\* an ingest component is selected and editable while the search context is read-only
C14_Witness ==
    /\ onIngest
    /\ searchReadonly
    /\ ~ingestReadonly
    /\ ~isProvisioning
    /\ ~readonly

(***************************************************************************)
(* Properties of the preset library                                        *)
(***************************************************************************)
\* the presets as they are shown when each is enriched for MINIMUM_FULL_SUPPORTED_VERSION
FullyEnriched(presets) ==
    [k \in 1..Len(presets) |->
        [name |-> presets[k].name, type |-> presets[k].type,
         version |-> MINIMUM_FULL_SUPPORTED_VERSION]]

\* C15: when multi-data-source is disabled the preset library skips the version check:
\* no version lookup is ever in flight, the version-loading flag is false, every
\* fetched preset is in allWorkflows, enriched as for MINIMUM_FULL_SUPPORTED_VERSION,
\* and each run of loadWorkflows shows all of them.
C15_NoVersionCheckWithoutDataSources ==
    /\ [](~dataSourceEnabled =>
            /\ loads = <<>>
            /\ ~isVersionLoading
            /\ allWorkflows = FullyEnriched(presetWorkflows))
    /\ [][(~dataSourceEnabled /\ lastOp' \in {"PresetsLoaded", "DataSourceChange"}) =>
            /\ loads' = <<>>
            /\ isVersionLoading' = FALSE
            /\ allWorkflows' = FullyEnriched(presetWorkflows')
            /\ filteredWorkflows' = FullyEnriched(presetWorkflows')]_vars

\* the presets have been fetched with multi-data-source disabled: all three are shown
C15_Witness ==
    /\ ~dataSourceEnabled
    /\ lastOp = "PresetsLoaded"
    /\ Len(filteredWorkflows) = 3
    /\ filteredWorkflows = allWorkflows
    /\ \A k \in 1..3 : allWorkflows[k].version = MINIMUM_FULL_SUPPORTED_VERSION
    /\ ~isVersionLoading

\* name contains q as a substring, letter case ignored
ContainsIgnoringCase(name, q) ==
    \E k \in 0..(Len(name) - Len(q)) :
        \A j \in 1..Len(q) : toLowerChar(name[k + j]) = toLowerChar(q[j])

\* C16: when the search query is updated the displayed preset list becomes the presets
\* of allWorkflows whose name contains the query as a case-insensitive substring, in
\* their original order; an empty query displays all of allWorkflows.
C16_SearchFiltersByName ==
    [][searchQuery' # searchQuery =>
            /\ filteredWorkflows' =
                  SelectSeq(allWorkflows,
                            LAMBDA w : ContainsIgnoringCase(w.name, searchQuery'))
            /\ searchQuery' = <<>> => filteredWorkflows' = allWorkflows]_vars

\* the query "ag" has just been entered with three presets loaded: only RAG is shown
C16_Witness ==
    /\ lastOp = "SearchQueryChange"
    /\ searchQuery = <<"a", "g">>
    /\ Len(allWorkflows) = 3
    /\ Len(filteredWorkflows) = 1
    /\ filteredWorkflows[1].name = <<"R", "A", "G">>

\* C17: once every pending lookup has completed and the latest run of loadWorkflows
\* has come to its end, the displayed presets are those that a run for the currently
\* selected data source has set; a late result for an older data source never
\* overwrites them.
C17_LatestDataSourceWins ==
    (loads = <<>> /\ loadLatest = "done") => shownFor = currentDataSourceId

(***************************************************************************)
(* Properties of the test query under several clicks                       *)
(***************************************************************************)
\* C18: once no test query is in flight, the query response shown is the outcome of the
\* most recent click on Test, whatever order the answers arrived in.
C18_LatestClickWins ==
    (requests = <<>> /\ latestOutcome.kind \in {"ok", "rejected"}) =>
        queryResponse = IF latestOutcome.kind = "ok" THEN ShownHits(latestOutcome.hits)
                        ELSE <<>>

====
